---- MODULE Spec2Model ----
(***************************************************************************)
(* Local execution of workflows: the LocalController (registry, walk of    *)
(* the template graph, per-run status), the DockerExecutor calls the walk  *)
(* makes for a unit of work, and the HTTP handlers that submit and read.   *)
(*                                                                         *)
(* A string is a sequence of tokens; names are built of one-character      *)
(* tokens, so that fmt.Sprintf is concatenation and strings.ReplaceAll     *)
(* works on characters.                                                    *)
(***************************************************************************)
EXTENDS Integers, Sequences, FiniteSets, TLC

VARIABLES
    queue,      \* requests the clients have yet to send: submissions, in order
    reads,      \* number of Get/List requests the clients may still send
    faults,     \* the ways the container runtime may fail in this run of the server
    workflows,  \* lc.workflows: run name -> WorkflowExecution (0: no entry)
    execs,      \* the WorkflowExecution objects, in order of creation
    walk,       \* per WorkflowExecution: where its executeWorkflow goroutine is
    frames,     \* per WorkflowExecution: graph position -> executeTemplate call
    reader,     \* the GetWorkflow call in progress (holds lc.mu and wfExec.mu for reading)
    snaps,      \* the workflows GetWorkflow / ListWorkflows have returned
    resp        \* per WorkflowExecution: the HTTP response of its submission

vars == <<queue, reads, faults, workflows, execs, walk, frames, reader, snaps, resp>>

-----------------------------------------------------------------------------
(* Bounds *)

\* exit codes a unit of work may end with: 0..MaxExit
MaxExit == 1

\* nesting of composites the memory of the process has room for: a composite
\* at depth MaxDepth finds none
MaxDepth == 3
-----------------------------------------------------------------------------
(* Strings *)

S(c) == <<c>>

Digits == <<"0", "1", "2", "3", "4", "5", "6", "7", "8", "9">>

\* fmt's %d of a non-negative integer
RECURSIVE Itoa(_)
Itoa(n) == IF n < 10 THEN <<Digits[n + 1]>>
           ELSE Itoa(n \div 10) \o <<Digits[(n % 10) + 1]>>

\* strings.ReplaceAll(s, old, new) for a one-character old
ReplaceAll(s, old, new) == [k \in 1..Len(s) |-> IF s[k] = old THEN new ELSE s[k]]

NoErr == <<>>

-----------------------------------------------------------------------------
(* wfv1 values *)

WorkflowPending   == "Pending"
WorkflowRunning   == "Running"
WorkflowSucceeded == "Succeeded"
WorkflowFailed    == "Failed"

NodeRunning   == "Running"
NodeSucceeded == "Succeeded"
NodeFailed    == "Failed"
NodeError     == "Error"

EmptyMap == [x \in {} |-> 0]

\* A template: its name and the fields that are not nil
Tmpl(name, has, steps, tasks) ==
    [name |-> name, has |-> has, steps |-> steps, tasks |-> tasks,
     containerEnv |-> <<>>, scriptEnv |-> <<>>, command |-> <<>>, source |-> <<>>]

\* an entry of Container.Env or Script.Env
EnvVar(name, value) == [name |-> name, value |-> value]

\* the template with the variables its container and its script declare
WithEnv(t, containerEnv, scriptEnv) ==
    [t EXCEPT !.containerEnv = containerEnv, !.scriptEnv = scriptEnv]
Container(name) == Tmpl(name, {"container"}, <<>>, <<>>)
\* a script with its interpreter command and its inline source
ScriptOf(name, command, source) ==
    [Tmpl(name, {"script"}, <<>>, <<>>) EXCEPT !.command = command, !.source = source]
Script(name)    == ScriptOf(name, <<S("python"), S("-u")>>, S("print(1)"))
Steps(name, groups) == Tmpl(name, {"steps"}, groups, <<>>)
DAG(name, tasks)    == Tmpl(name, {"dag"}, <<>>, tasks)
Ref(name, template) == [name |-> name, template |-> template]
\* a wfv1.DAGTask with the names of the tasks it declares to depend on
Task(name, template, dependencies) ==
    [name |-> name, template |-> template, dependencies |-> dependencies]

\* the zero wfv1.WorkflowStatus
ZeroStatus ==
    [phase |-> "", message |-> <<>>, startedAt |-> FALSE, finishedAt |-> FALSE,
     nodesNil |-> TRUE, nodes |-> EmptyMap]

Workflow(name, entrypoint, templates, status) ==
    [name |-> name, entrypoint |-> entrypoint, templates |-> templates,
     status |-> status]

\* wf.NodeID(nodeName): the workflow's own name, or the name and a hash of
\* the node name (the hash taken as injective)
NodeID(wfName, nodeName) ==
    IF nodeName = wfName THEN wfName ELSE wfName \o S("-") \o nodeName

\* the first template of that name: its index, 0 when there is none
FindTemplate(wf, name) ==
    LET hits == {k \in 1..Len(wf.templates) : wf.templates[k].name = name}
    IN  IF hits = {} THEN 0 ELSE CHOOSE k \in hits : \A h \in hits : k <= h

\* executeTemplate's switch
TemplateKind(t) ==
    IF "container" \in t.has THEN "container"
    ELSE IF "script" \in t.has THEN "script"
    ELSE IF "steps" \in t.has THEN "steps"
    ELSE IF "dag" \in t.has THEN "dag"
    ELSE "unsupported"

\* fmt.Sprintf("%s[%d].%s", nodeName, i, s.Name), i counted from 0
StepNodeName(nodeName, i, s) ==
    nodeName \o S("[") \o Itoa(i) \o S("]") \o S(".") \o s.name

TaskNodeName(nodeName, t) == nodeName \o S(".") \o t.name

ContainerName(wfName, nodeName) ==
    ReplaceAll(<<"a", "r", "g", "o", "-">> \o wfName \o S("-") \o nodeName, ".", "-")

\* the zero wfv1.NodeStatus
ZeroNode ==
    [id |-> <<>>, name |-> <<>>, phase |-> "", message |-> <<>>,
     startedAt |-> FALSE, finishedAt |-> FALSE, outputs |-> <<>>, host |-> <<>>]

-----------------------------------------------------------------------------
(* The requests of the clients *)

W == S("w")
MAIN == S("m")

\* a container that declares two variables, one under an injected name, and
\* a script that declares one
LeafTemplates ==
    <<WithEnv(Container(S("a")),
              <<EnvVar(S("K"), S("1")), EnvVar(S("ARGO_NODE_NAME"), S("x"))>>, <<>>),
      WithEnv(Script(S("b")), <<>>, <<EnvVar(S("ARGO_WORKFLOW_NAME"), S("y"))>>)>>

\* two groups of two steps
StepsDoc ==
    Workflow(W, MAIN,
        <<Steps(MAIN, << <<Ref(S("A"), S("a")), Ref(S("B"), S("b"))>>,
                         <<Ref(S("C"), S("a")), Ref(S("D"), S("a"))>> >>)>>
        \o LeafTemplates, ZeroStatus)

\* a task graph of three leaf tasks: Y declares to depend on X, Z on Y
DagDoc ==
    Workflow(W, MAIN,
        <<DAG(MAIN, <<Task(S("X"), S("a"), <<>>), Task(S("Y"), S("a"), <<S("X")>>),
                      Task(S("Z"), S("b"), <<S("Y")>>)>>)>>
        \o LeafTemplates, ZeroStatus)

\* a task graph two of whose tasks share a name
SameNameDoc ==
    Workflow(W, MAIN,
        <<DAG(MAIN, <<Task(S("X"), S("a"), <<>>), Task(S("X"), S("a"), <<>>)>>)>>
        \o LeafTemplates, ZeroStatus)

\* a step list whose first group holds a task graph
NestedDoc ==
    Workflow(W, MAIN,
        <<Steps(MAIN, << <<Ref(S("A"), S("d"))>>, <<Ref(S("B"), S("a"))>> >>),
          DAG(S("d"), <<Task(S("X"), S("a"), <<>>), Task(S("Y"), S("b"), <<>>)>>)>>
        \o LeafTemplates, ZeroStatus)

\* a task graph with a task A that is a task graph with a task B, and a
\* task A-B
HyphenDoc ==
    Workflow(W, MAIN,
        <<DAG(MAIN, <<Task(S("A"), S("d"), <<>>),
                      Task(<<"A", "-", "B">>, S("a"), <<>>)>>),
          DAG(S("d"), <<Task(S("B"), S("a"), <<>>)>>)>>
        \o LeafTemplates, ZeroStatus)

\* a single unit of work
LeafDoc(name) == Workflow(name, S("a"), LeafTemplates, ZeroStatus)

\* a document that arrives with a status of its own
CarriedStatus ==
    [phase |-> WorkflowSucceeded, message |-> <<>>, startedAt |-> TRUE,
     finishedAt |-> TRUE, nodesNil |-> FALSE,
     nodes |-> (NodeID(W, S("o")) :>
                  [ZeroNode EXCEPT !.id = NodeID(W, S("o")), !.name = S("o"),
                                   !.phase = NodeSucceeded, !.startedAt = TRUE,
                                   !.finishedAt = TRUE])]
CarriedDoc == Workflow(W, S("a"), LeafTemplates, CarriedStatus)

\* a document that arrives with the status of a run that failed
CarriedFailedStatus ==
    [CarriedStatus EXCEPT !.phase = WorkflowFailed, !.message = S("old"),
                          !.nodes[NodeID(W, S("o"))].phase = NodeFailed]
CarriedFailedDoc == Workflow(W, S("a"), LeafTemplates, CarriedFailedStatus)

\* structural errors: a step that names no template, a template of no kind,
\* an entrypoint that names no template, no entrypoint, no name
BadRefDoc ==
    Workflow(W, MAIN,
        <<Steps(MAIN, << <<Ref(S("A"), S("z")), Ref(S("B"), S("a"))>>,
                         <<Ref(S("C"), S("a"))>> >>),
          DAG(S("d"), <<Task(S("X"), S("z"), <<>>)>>)>>
        \o LeafTemplates, ZeroStatus)
BadTaskDoc ==
    Workflow(W, S("d"),
        <<DAG(S("d"), <<Task(S("X"), S("z"), <<>>), Task(S("Y"), S("e"), <<>>)>>),
          Tmpl(S("e"), {}, <<>>, <<>>), Steps(S("n"), <<>>)>>
        \o LeafTemplates, ZeroStatus)
EmptyStepsDoc ==
    Workflow(W, S("n"), <<Steps(S("n"), <<>>)>>, ZeroStatus)
BadEntryDoc == Workflow(W, S("z"), LeafTemplates, ZeroStatus)
NoEntryDoc == Workflow(W, <<>>, LeafTemplates, ZeroStatus)
NoNameDoc == Workflow(<<>>, S("a"), LeafTemplates, ZeroStatus)

\* a step list that runs a container and a task graph whose task is the step
\* list again
RecursiveDoc ==
    Workflow(W, MAIN,
        <<Steps(MAIN, << <<Ref(S("A"), S("a")), Ref(S("B"), S("d"))>> >>),
          DAG(S("d"), <<Task(S("X"), MAIN, <<>>)>>)>>
        \o LeafTemplates, ZeroStatus)

\* a script with a one-word command, then a script that declares no command
NoCommandDoc ==
    Workflow(W, MAIN,
        <<Steps(MAIN, << <<Ref(S("A"), S("c"))>>, <<Ref(S("B"), S("s"))>> >>),
          ScriptOf(S("c"), <<S("sh")>>, S("true")),
          ScriptOf(S("s"), <<>>, S("true"))>>, ZeroStatus)

Http(wf) == [via |-> "http", wf |-> wf]
Api(wf) == [via |-> "api", wf |-> wf]

AllFaults == {"create", "start", "wait", "logs", "remove"}

Scenario(subs, gets, fs) == [queue |-> subs, reads |-> gets, faults |-> fs]

\* What the clients send in one life of the server, and how the runtime may fail
Scenarios ==
    { Scenario(<<Api(StepsDoc)>>, 0, {}),
      Scenario(<<Api(DagDoc)>>, 0, {}),
      Scenario(<<Api(SameNameDoc)>>, 0, {}),
      Scenario(<<Api(NestedDoc)>>, 0, {}),
      Scenario(<<Api(HyphenDoc)>>, 0, {}),
      Scenario(<<Http(LeafDoc(W)), Http(LeafDoc(W))>>, 1, {}),
      Scenario(<<Api(LeafDoc(W)), Api(LeafDoc(S("v"))), Api(NoEntryDoc)>>, 1, {}),
      Scenario(<<Http(CarriedDoc)>>, 1, {}),
      Scenario(<<Api(CarriedFailedDoc)>>, 0, {}),
      Scenario(<<Api(LeafDoc(W))>>, 1, AllFaults),
      Scenario(<<Api(BadRefDoc)>>, 0, {}),
      Scenario(<<Api(BadTaskDoc)>>, 0, {}),
      Scenario(<<Api(NoCommandDoc)>>, 0, {}),
      Scenario(<<Api(RecursiveDoc)>>, 0, {}),
      Scenario(<<Api(EmptyStepsDoc), Api(BadEntryDoc)>>, 2, {}),
      Scenario(<<Api(NoEntryDoc), Http(NoEntryDoc), Http(NoNameDoc),
                 Api(BadEntryDoc)>>, 1, {}) }

-----------------------------------------------------------------------------
(* State *)

Idle == [op |-> "idle", exec |-> 0]

Init ==
    /\ \E sc \in Scenarios :
          /\ queue = sc.queue
          /\ reads = sc.reads
          /\ faults = sc.faults
    /\ workflows = EmptyMap
    /\ execs = <<>>
    /\ walk = <<>>
    /\ frames = <<>>
    /\ reader = Idle
    /\ snaps = <<>>
    /\ resp = <<>>

Execs == 1..Len(execs)

\* one lock for the registry and every run: no reader holds anything
CanLockGlobal(e) == reader = Idle

\* wfExec.mu can be taken for writing: no reader holds it
CanLock(e) == reader.exec # e

\* lc.mu can be taken for writing: no reader holds it
CanLockRegistry == reader.op = "idle"

-----------------------------------------------------------------------------
(* LocalController.SubmitWorkflow and Server.submitWorkflow *)

\* lines 51-55: the status the new WorkflowExecution starts with
InitialStatus(st) ==
    IF st.phase = "" THEN [st EXCEPT !.phase = WorkflowPending, !.startedAt = TRUE]
    ELSE st

\* a SubmitWorkflow that starts the walk and leaves the storing of the entry
\* to the walk
SubmitWorkflowUnregistered(wf) ==
    /\ CanLockRegistry
    /\ execs' = Append(execs, [wf EXCEPT !.status = InitialStatus(wf.status)])
    /\ workflows' = workflows
    /\ walk' = Append(walk, "start")
    /\ frames' = Append(frames, EmptyMap)

\* SubmitWorkflow under lc.mu: the entry is stored under the name and the
\* walk is started
SubmitWorkflow(wf) ==
    /\ CanLockRegistry
    /\ execs' = Append(execs, [wf EXCEPT !.status = InitialStatus(wf.status)])
    /\ workflows' = (wf.name :> (Len(execs) + 1)) @@ workflows
    /\ walk' = Append(walk, "start")
    /\ frames' = Append(frames, EmptyMap)

\* a direct call of LocalController.SubmitWorkflow
ApiSubmit ==
    /\ queue # <<>>
    /\ Head(queue).via = "api"
    /\ SubmitWorkflow(Head(queue).wf)
    /\ queue' = Tail(queue)
    /\ resp' = Append(resp, [exec |-> Len(execs) + 1, state |-> "none", code |-> 0,
                             phase |-> "", shared |-> FALSE,
                             posted |-> Head(queue).wf.status.phase])
    /\ UNCHANGED <<reads, faults, reader, snaps>>

\* POST /api/v1/workflows without a name or without an entrypoint: 400
HttpReject ==
    /\ queue # <<>>
    /\ Head(queue).via = "http"
    /\ Head(queue).wf.name = <<>> \/ Head(queue).wf.entrypoint = <<>>
    /\ queue' = Tail(queue)
    /\ resp' = Append(resp, [exec |-> 0, state |-> "sent", code |-> 400, phase |-> "",
                             shared |-> FALSE, posted |-> Head(queue).wf.status.phase])
    /\ UNCHANGED <<reads, faults, workflows, execs, walk, frames, reader, snaps>>

\* POST /api/v1/workflows: SubmitWorkflow has returned nil
HttpSubmit ==
    /\ queue # <<>>
    /\ Head(queue).via = "http"
    /\ Head(queue).wf.name # <<>>
    /\ Head(queue).wf.entrypoint # <<>>
    /\ SubmitWorkflow(Head(queue).wf)
    /\ queue' = Tail(queue)
    /\ resp' = Append(resp, [exec |-> Len(execs) + 1, state |-> "submitted",
                             code |-> 0, phase |-> "", shared |-> FALSE,
                             posted |-> Head(queue).wf.status.phase])
    /\ UNCHANGED <<reads, faults, reader, snaps>>

\* line 521: the handler starts to encode the workflow it submitted, which
\* is the object the walk writes to; Encode takes the struct by value, so
\* the Nodes map it goes through is the map of the run if there is one by
\* then (shared)
HttpEncodeBegin(i) ==
    /\ resp[i].state = "submitted"
    /\ resp' = [resp EXCEPT ![i].state = "encoding",
                            ![i].shared = ~execs[resp[i].exec].status.nodesNil]
    /\ UNCHANGED <<queue, reads, faults, workflows, execs, walk, frames, reader, snaps>>

HttpEncodeEnd(i) ==
    /\ resp[i].state = "encoding"
    /\ resp' = [resp EXCEPT ![i].state = "sent", ![i].code = 201,
                            ![i].phase = execs[resp[i].exec].status.phase]
    /\ UNCHANGED <<queue, reads, faults, workflows, execs, walk, frames, reader, snaps>>

-----------------------------------------------------------------------------
(* LocalController.GetWorkflow and ListWorkflows *)

\* wf := wfExec.Workflow.DeepCopy(); wf.Status = *wfExec.Status: the fields
\* of the status are copied, the Nodes map is the map of the run itself.
\* copied is what the map held when the copy was made, final whether the
\* walk of the run had finished by then.
Snapshot(e) ==
    [exec |-> e, name |-> execs[e].name, phase |-> execs[e].status.phase,
     message |-> execs[e].status.message, startedAt |-> execs[e].status.startedAt,
     finishedAt |-> execs[e].status.finishedAt, nodesNil |-> execs[e].status.nodesNil,
     copied |-> execs[e].status.nodes, final |-> walk[e] = "done"]

\* what the Nodes field of a returned workflow holds now
SnapshotNodes(s) == IF s.nodesNil THEN EmptyMap ELSE execs[s.exec].status.nodes

\* GetWorkflow has taken lc.mu and wfExec.mu for reading
GetBegin(name) ==
    /\ reads > 0
    /\ reader = Idle
    /\ name \in DOMAIN workflows
    /\ reader' = [op |-> "get", exec |-> workflows[name]]
    /\ reads' = reads - 1
    /\ UNCHANGED <<queue, faults, workflows, execs, walk, frames, snaps, resp>>

\* a GetWorkflow that keeps both locks until the walk of the run is over
GetEndAfterWalk ==
    /\ reader.op = "get"
    /\ walk[reader.exec] = "done"
    /\ snaps' = Append(snaps, Snapshot(reader.exec))
    /\ reader' = Idle
    /\ UNCHANGED <<queue, reads, faults, workflows, execs, walk, frames, resp>>

\* GetWorkflow copies and returns, releasing both locks
GetEnd ==
    /\ reader.op = "get"
    /\ snaps' = Append(snaps, Snapshot(reader.exec))
    /\ reader' = Idle
    /\ UNCHANGED <<queue, reads, faults, workflows, execs, walk, frames, resp>>

\* GetWorkflow of a name the registry does not hold
GetNotFound(name) ==
    /\ reads > 0
    /\ reader = Idle
    /\ name \notin DOMAIN workflows
    /\ reads' = reads - 1
    /\ UNCHANGED <<queue, faults, workflows, execs, walk, frames, reader, snaps, resp>>

RECURSIVE SnapshotAll(_)
SnapshotAll(names) ==
    IF names = <<>> THEN <<>>
    ELSE <<Snapshot(workflows[Head(names)])>> \o SnapshotAll(Tail(names))

\* the orders in which a range over lc.workflows may visit its keys
Orders(keys) ==
    {o \in [1..Cardinality(keys) -> keys] : \A k \in keys : \E i \in DOMAIN o : o[i] = k}

ListWorkflows ==
    /\ reads > 0
    /\ \E o \in Orders(DOMAIN workflows) : snaps' = snaps \o SnapshotAll(o)
    /\ reads' = reads - 1
    /\ UNCHANGED <<queue, faults, workflows, execs, walk, frames, reader, resp>>

-----------------------------------------------------------------------------
(* LocalController.executeWorkflow *)

SetStatus(e, st) == execs' = [execs EXCEPT ![e].status = st]

\* a call of executeTemplate (for a step or a task: the goroutine that makes
\* it); rt is the list of the calls it has made to the Docker client
NewFrame(name, nodeName, template) ==
    [name |-> name, node |-> nodeName, ref |-> template, pc |-> "ready", g |-> 0,
     errChan |-> <<>>, err |-> NoErr, ns |-> ZeroNode, unit |-> "none",
     rt |-> <<>>, env |-> <<>>, cname |-> <<>>, cmd |-> <<>>]

\* lines 78-80
WalkStart(e) ==
    /\ walk[e] = "start"
    /\ CanLock(e)
    /\ SetStatus(e, [execs[e].status EXCEPT !.phase = WorkflowRunning])
    /\ walk' = [walk EXCEPT ![e] = "init"]
    /\ UNCHANGED <<queue, reads, faults, workflows, frames, reader, snaps, resp>>

\* lines 83-85, with no lock held
WalkInitNodes(e) ==
    /\ walk[e] = "init"
    /\ SetStatus(e, IF execs[e].status.nodesNil
                    THEN [execs[e].status EXCEPT !.nodesNil = FALSE, !.nodes = EmptyMap]
                    ELSE execs[e].status)
    /\ walk' = [walk EXCEPT ![e] = "resolve"]
    /\ UNCHANGED <<queue, reads, faults, workflows, frames, reader, snaps, resp>>

\* markWorkflowFailed, under wfExec.mu
MarkWorkflowFailed(e, message) ==
    /\ CanLock(e)
    /\ SetStatus(e, [execs[e].status EXCEPT !.phase = WorkflowFailed,
                                            !.message = message,
                                            !.finishedAt = TRUE])

\* lines 88-93
WalkNoEntrypoint(e) ==
    /\ walk[e] = "resolve"
    /\ execs[e].entrypoint = <<>>
    /\ MarkWorkflowFailed(e, S("No entrypoint specified"))
    /\ walk' = [walk EXCEPT ![e] = "done"]
    /\ UNCHANGED <<queue, reads, faults, workflows, frames, reader, snaps, resp>>

\* a walk that falls back on the first template of the document
WalkEntrypointDefault(e) ==
    /\ walk[e] = "resolve"
    /\ execs[e].entrypoint # <<>>
    /\ FindTemplate(execs[e], execs[e].entrypoint) = 0
    /\ frames' = [frames EXCEPT ![e] =
                     (<<>> :> NewFrame(execs[e].templates[1].name,
                                       execs[e].templates[1].name,
                                       execs[e].templates[1].name))]
    /\ walk' = [walk EXCEPT ![e] = "exec"]
    /\ UNCHANGED <<queue, reads, faults, workflows, execs, reader, snaps, resp>>

\* lines 96-108
WalkEntrypointNotFound(e) ==
    /\ walk[e] = "resolve"
    /\ execs[e].entrypoint # <<>>
    /\ FindTemplate(execs[e], execs[e].entrypoint) = 0
    /\ MarkWorkflowFailed(e, S("Entrypoint template '") \o execs[e].entrypoint
                             \o S("' not found"))
    /\ walk' = [walk EXCEPT ![e] = "done"]
    /\ UNCHANGED <<queue, reads, faults, workflows, frames, reader, snaps, resp>>

\* line 111: executeTemplate is called for the entrypoint
WalkExecute(e) ==
    /\ walk[e] = "resolve"
    /\ execs[e].entrypoint # <<>>
    /\ FindTemplate(execs[e], execs[e].entrypoint) # 0
    /\ frames' = [frames EXCEPT ![e] =
                     (<<>> :> NewFrame(execs[e].entrypoint, execs[e].entrypoint,
                                       execs[e].entrypoint))]
    /\ walk' = [walk EXCEPT ![e] = "exec"]
    /\ UNCHANGED <<queue, reads, faults, workflows, execs, reader, snaps, resp>>

\* lines 111-115: executeTemplate returned an error
WalkFailed(e) ==
    /\ walk[e] = "exec"
    /\ frames[e][<<>>].pc = "done"
    /\ frames[e][<<>>].err # NoErr
    /\ MarkWorkflowFailed(e, frames[e][<<>>].err)
    /\ walk' = [walk EXCEPT ![e] = "done"]
    /\ UNCHANGED <<queue, reads, faults, workflows, frames, reader, snaps, resp>>

\* lines 117-121
WalkSucceeded(e) ==
    /\ walk[e] = "exec"
    /\ frames[e][<<>>].pc = "done"
    /\ frames[e][<<>>].err = NoErr
    /\ CanLock(e)
    /\ SetStatus(e, [execs[e].status EXCEPT !.phase = WorkflowSucceeded,
                                            !.finishedAt = TRUE])
    /\ walk' = [walk EXCEPT ![e] = "done"]
    /\ UNCHANGED <<queue, reads, faults, workflows, frames, reader, snaps, resp>>

-----------------------------------------------------------------------------
(* LocalController.executeTemplate and the calls it dispatches to *)

Parent(p) == SubSeq(p, 1, Len(p) - 1)

\* the template a call is for: found by name, first match
TemplateIndex(e, p) == FindTemplate(execs[e], frames[e][p].ref)
TemplateOf(e, p) == execs[e].templates[TemplateIndex(e, p)]

\* the calls made for group g of the composite at p
Children(fs, p, g) ==
    {q \in DOMAIN fs : /\ Len(q) = Len(p) + 1
                       /\ SubSeq(q, 1, Len(p)) = p
                       /\ q[Len(q)][1] = g}

\* the call at p returns err: a step or task goroutine sends a non-nil
\* error to its parent's errChan, then wg.Done()
Returned(fs, p, err) ==
    LET f1 == [fs EXCEPT ![p].pc = "done", ![p].err = err]
    IN  IF p = <<>> \/ err = NoErr THEN f1
        ELSE [f1 EXCEPT ![Parent(p)].errChan = Append(@, err)]

\* one goroutine per member of the group is started, the composite waits
Dispatched(fs, p, g, refs, names) ==
    LET new == {Append(p, <<g, j>>) : j \in 1..Len(refs)}
    IN  [q \in DOMAIN fs \cup new |->
            IF q \in new
            THEN NewFrame(refs[q[Len(q)][2]].name, names[q[Len(q)][2]],
                          refs[q[Len(q)][2]].template)
            ELSE IF q = p THEN [fs[p] EXCEPT !.pc = "join", !.g = g, !.errChan = <<>>]
            ELSE fs[q]]

\* a wait that ends with the first wg.Done()
GroupDoneFirst(fs, p, g) ==
    Children(fs, p, g) = {} \/ \E q \in Children(fs, p, g) : fs[q].pc = "done"

\* wg.Wait(): every goroutine of the group has called wg.Done()
GroupDone(fs, p, g) == \A q \in Children(fs, p, g) : fs[q].pc = "done"

\* a check of errChan that finds nothing
FirstErrorLost(errChan) == NoErr

\* a check of errChan that keeps the error received last
FirstErrorLast(errChan) == IF errChan = <<>> THEN NoErr ELSE errChan[Len(errChan)]

\* lines 231-235 and 281-285: the first error of the closed errChan, or nil
FirstError(errChan) == IF errChan = <<>> THEN NoErr ELSE Head(errChan)

\* lines 216-219 and 266-269: the step or task names no template
TemplateNotFound(e, p) ==
    /\ frames[e][p].pc = "ready"
    /\ TemplateIndex(e, p) = 0
    /\ frames' = [frames EXCEPT ![e] = Returned(frames[e], p,
          S("template '") \o frames[e][p].ref
          \o (IF TemplateKind(TemplateOf(e, Parent(p))) = "steps"
              THEN S("' not found for step '") ELSE S("' not found for task '"))
          \o frames[e][p].name \o S("'"))]
    /\ UNCHANGED <<queue, reads, faults, workflows, execs, walk, reader, snaps, resp>>

\* line 147
Unsupported(e, p) ==
    /\ frames[e][p].pc = "ready"
    /\ TemplateIndex(e, p) # 0
    /\ TemplateKind(TemplateOf(e, p)) = "unsupported"
    /\ frames' = [frames EXCEPT ![e] = Returned(frames[e], p,
          S("unsupported template type for template ") \o TemplateOf(e, p).name)]
    /\ UNCHANGED <<queue, reads, faults, workflows, execs, walk, reader, snaps, resp>>

IsLeaf(e, p) ==
    /\ TemplateIndex(e, p) # 0
    /\ TemplateKind(TemplateOf(e, p)) \in {"container", "script"}

\* a call to the Docker client and how it ended (code: the exit code that
\* ContainerWait reported)
Call(op, ok, code) == [op |-> op, ok |-> ok, code |-> code]

\* a walk that runs with the context of the request that submitted it
WalkContextRequest(e) == "request"

\* line 66: the context the walk, and every Docker call it makes, runs with
WalkContext(e) == "background"

\* the request that submitted the run has been answered: net/http cancels
\* its context
RequestOver(e) ==
    \E i \in DOMAIN resp : resp[i].exec = e /\ resp[i].state = "sent"

\* the context of the walk is cancelled
Cancelled(e) == WalkContext(e) = "request" /\ RequestOver(e)

\* fmt.Sprintf("%s=%s", name, value)
EnvEntry(name, value) == name \o S("=") \o value

EnvEntries(env) == [i \in DOMAIN env |-> EnvEntry(env[i].name, env[i].value)]

\* a list in which a declared variable takes the place of the injected
\* variable of the same name
buildEnvVarsOverride(tmpl, wfName, nodeName) ==
    LET injected == <<EnvVar(S("ARGO_WORKFLOW_NAME"), wfName),
                      EnvVar(S("ARGO_NODE_NAME"), nodeName),
                      EnvVar(S("ARGO_TEMPLATE_NAME"), tmpl.name)>>
        declared == (IF "container" \in tmpl.has THEN tmpl.containerEnv ELSE <<>>)
                    \o (IF "script" \in tmpl.has THEN tmpl.scriptEnv ELSE <<>>)
        Last(n) == CHOOSE i \in DOMAIN declared :
                      /\ declared[i].name = n
                      /\ \A j \in DOMAIN declared : declared[j].name = n => j <= i
    IN  EnvEntries([k \in 1..3 |->
                      IF \E i \in DOMAIN declared : declared[i].name = injected[k].name
                      THEN declared[Last(injected[k].name)] ELSE injected[k]])
        \o EnvEntries(declared)

\* docker_executor.go lines 266-287
buildEnvVars(tmpl, wfName, nodeName) ==
    <<EnvEntry(S("ARGO_WORKFLOW_NAME"), wfName),
      EnvEntry(S("ARGO_NODE_NAME"), nodeName),
      EnvEntry(S("ARGO_TEMPLATE_NAME"), tmpl.name)>>
    \o (IF "container" \in tmpl.has THEN EnvEntries(tmpl.containerEnv) ELSE <<>>)
    \o (IF "script" \in tmpl.has THEN EnvEntries(tmpl.scriptEnv) ELSE <<>>)

\* docker_executor.go lines 181-195: the Cmd of the container of a script,
\* Command[0], then Command[1:] when there is more than one, then "-c" and
\* the source
ScriptCmd(tmpl) ==
    (IF Len(tmpl.command) > 1
     THEN <<tmpl.command[1]>> \o Tail(tmpl.command)
     ELSE <<tmpl.command[1]>>)
    \o <<S("-c"), tmpl.source>>

\* line 182 indexes Command[0] of a script whose Command is empty
IndexOutOfRange(e, p) ==
    /\ IsLeaf(e, p)
    /\ TemplateKind(TemplateOf(e, p)) = "script"
    /\ TemplateOf(e, p).command = <<>>

\* ExecuteContainer / ExecuteScript up to ContainerWait: the container is
\* created and started, or one of the two calls fails and the error is
\* returned (a container that does not start is left behind)
LeafLaunch(e, p) ==
    /\ frames[e][p].pc = "ready"
    /\ IsLeaf(e, p)
    /\ ~IndexOutOfRange(e, p)
    /\ \E o \in IF Cancelled(e) THEN {"cancelled"}
                ELSE {"ok"} \cup (faults \cap {"create", "start"}) :
          LET config == [frames[e] EXCEPT
                            ![p].env = buildEnvVars(TemplateOf(e, p), execs[e].name,
                                                    frames[e][p].node),
                            ![p].cname = ContainerName(execs[e].name,
                                                       frames[e][p].node),
                            ![p].cmd = IF TemplateKind(TemplateOf(e, p)) = "script"
                                       THEN ScriptCmd(TemplateOf(e, p))
                                       ELSE <<>>]
          IN
          frames' = [frames EXCEPT ![e] =
             IF o = "cancelled"
             THEN Returned([config EXCEPT ![p].rt = <<Call("create", FALSE, 0)>>], p,
                           S("failed to create container: ") \o S("context canceled"))
             ELSE IF o = "create"
             THEN Returned([config EXCEPT ![p].rt = <<Call("create", FALSE, 0)>>], p,
                           S("failed to create container: ") \o S("runtime error"))
             ELSE IF o = "start"
             THEN Returned([config EXCEPT
                              ![p].unit = "created",
                              ![p].rt = <<Call("create", TRUE, 0), Call("start", FALSE, 0)>>],
                           p, S("failed to start container: ") \o S("runtime error"))
             ELSE [config EXCEPT
                     ![p].unit = "running",
                     ![p].pc = "waiting",
                     ![p].rt = <<Call("create", TRUE, 0), Call("start", TRUE, 0)>>,
                     ![p].ns = [ZeroNode EXCEPT
                                   !.id = NodeID(execs[e].name, frames[e][p].node),
                                   !.name = frames[e][p].node,
                                   !.phase = NodeRunning,
                                   !.startedAt = TRUE,
                                   !.host = ContainerName(execs[e].name,
                                                          frames[e][p].node)]]]
    /\ UNCHANGED <<queue, reads, faults, workflows, execs, walk, reader, snaps, resp>>

\* an adapter that takes every exit for a success
ExitStatusIgnored(ns, kind, code) ==
    [ns EXCEPT !.phase = NodeSucceeded, !.finishedAt = TRUE]

\* an adapter whose message does not say what kind of unit exited
ExitStatusBare(ns, kind, code) ==
    IF code = 0 THEN [ns EXCEPT !.phase = NodeSucceeded, !.finishedAt = TRUE]
    ELSE [ns EXCEPT !.phase = NodeFailed, !.finishedAt = TRUE,
                    !.message = S("exited with code ") \o Itoa(code)]

\* docker_executor.go lines 140-145 and 236-241:
\* fmt.Sprintf("container exited with code %d", ...), "script exited ..."
ExitStatus(ns, kind, code) ==
    IF code = 0 THEN [ns EXCEPT !.phase = NodeSucceeded, !.finishedAt = TRUE]
    ELSE [ns EXCEPT !.phase = NodeFailed, !.finishedAt = TRUE,
                    !.message = S(kind) \o S(" ") \o S("exited with code ")
                                   \o Itoa(code)]

\* docker_executor.go lines 129-134 and 227-232: ContainerWait failed with
\* err; the node status goes back with the error, the container stays
WaitFailed(f, err) ==
    [f EXCEPT !.ns.phase = NodeError, !.ns.message = err,
              !.rt = @ \o <<Call("wait", FALSE, 0)>>]

\* an adapter that stores the logs it got, empty when the read failed
ExitedLogsAlways(f, kind, code, logs, removed) ==
    [f EXCEPT
        !.pc = "record",
        !.unit = IF removed THEN "removed" ELSE "exited",
        !.rt = @ \o <<Call("wait", TRUE, code), Call("logs", logs, 0),
                      Call("remove", removed, 0)>>,
        !.ns = [ExitStatus(@, kind, code) EXCEPT
                   !.outputs = <<[name |-> "logs",
                                  value |-> IF logs THEN S("output") ELSE <<>>]>>]]

\* an adapter that removes the container and then reads its logs
ExitedRemoveFirst(f, kind, code, logs, removed) ==
    [f EXCEPT
        !.pc = "record",
        !.unit = IF removed THEN "removed" ELSE "exited",
        !.rt = @ \o <<Call("wait", TRUE, code), Call("remove", removed, 0),
                      Call("logs", logs, 0)>>,
        !.ns = [ExitStatus(@, kind, code) EXCEPT
                   !.outputs = IF logs
                               THEN <<[name |-> "logs", value |-> S("output")]>>
                               ELSE <<>>]]

\* an adapter that gives up the node when its logs cannot be read
ExitedLogsFatal(f, kind, code, logs, removed) ==
    [f EXCEPT
        !.pc = "record",
        !.unit = IF removed THEN "removed" ELSE "exited",
        !.rt = @ \o <<Call("wait", TRUE, code), Call("logs", logs, 0),
                      Call("remove", removed, 0)>>,
        !.ns = IF logs
               THEN [ExitStatus(@, kind, code) EXCEPT
                        !.outputs = <<[name |-> "logs", value |-> S("output")]>>]
               ELSE [@ EXCEPT !.phase = NodeError, !.message = S("logs error")]]

\* docker_executor.go lines 135-168 and 233-262: the container exited with
\* code; the logs are read (logs: the read succeeded), the container is
\* removed (removed: the removal succeeded), the node status goes back alone
Exited(f, kind, code, logs, removed) ==
    [f EXCEPT
        !.pc = "record",
        !.unit = IF removed THEN "removed" ELSE "exited",
        !.rt = @ \o <<Call("wait", TRUE, code), Call("logs", logs, 0),
                      Call("remove", removed, 0)>>,
        !.ns = [ExitStatus(@, kind, code) EXCEPT
                   !.outputs = IF logs
                               THEN <<[name |-> "logs", value |-> S("output")]>>
                               ELSE <<>>]]

\* ContainerWait returns: with an error (of the runtime, or of a cancelled
\* context), or with the exit code of the container
LeafAwait(e, p) ==
    /\ frames[e][p].pc = "waiting"
    /\ \/ /\ Cancelled(e)
          /\ frames' = [frames EXCEPT ![e] =
                Returned([frames[e] EXCEPT
                             ![p] = WaitFailed(@, S("context canceled"))],
                         p, S("context canceled"))]
       \/ /\ ~Cancelled(e)
          /\ "wait" \in faults
          /\ frames' = [frames EXCEPT ![e] =
                Returned([frames[e] EXCEPT ![p] = WaitFailed(@, S("wait error"))],
                         p, S("wait error"))]
       \/ /\ ~Cancelled(e)
          /\ \E code \in 0..MaxExit :
             \E logs \in {TRUE} \cup {l \in {FALSE} : "logs" \in faults} :
             \E removed \in {TRUE} \cup {r \in {FALSE} : "remove" \in faults} :
                frames' = [frames EXCEPT ![e][p] =
                   Exited(@, TemplateKind(TemplateOf(e, p)), code, logs, removed)]
    /\ UNCHANGED <<queue, reads, faults, workflows, execs, walk, reader, snaps, resp>>

\* controller lines 162-166 and 180-184
LeafError(ns, kind) ==
    IF ns.phase \in {NodeFailed, NodeError}
    THEN S(kind) \o S(" execution failed: ") \o ns.message
    ELSE NoErr

\* a store that writes back a map read before the lock was taken, here the
\* empty one: the entries stored meanwhile are lost
LeafRecordLost(e, p) ==
    /\ frames[e][p].pc = "record"
    /\ CanLock(e)
    /\ SetStatus(e, [execs[e].status EXCEPT
                        !.nodes = (frames[e][p].ns.id :> frames[e][p].ns)])
    /\ frames' = [frames EXCEPT ![e] = Returned(frames[e], p,
                     LeafError(frames[e][p].ns, TemplateKind(TemplateOf(e, p))))]
    /\ UNCHANGED <<queue, reads, faults, workflows, walk, reader, snaps, resp>>

\* controller lines 158-166 and 176-184: the node status is stored under
\* wfExec.mu, then the call returns
LeafRecord(e, p) ==
    /\ frames[e][p].pc = "record"
    /\ CanLock(e)
    /\ SetStatus(e, [execs[e].status EXCEPT
                        !.nodes = (frames[e][p].ns.id :> frames[e][p].ns) @@ @])
    /\ frames' = [frames EXCEPT ![e] = Returned(frames[e], p,
                     LeafError(frames[e][p].ns, TemplateKind(TemplateOf(e, p))))]
    /\ UNCHANGED <<queue, reads, faults, workflows, walk, reader, snaps, resp>>

\* a goroutine that holds no lock may be ranging over the Nodes map of the
\* run: the submit handler encoding its response (line 521), or the caller
\* that GetWorkflow or ListWorkflows gave the map to (the handlers encode
\* it at lines 449 and 466)
NodesReader(e) ==
    \/ \E i \in DOMAIN resp :
          resp[i].exec = e /\ resp[i].state = "encoding" /\ resp[i].shared
    \/ \E k \in DOMAIN snaps : snaps[k].exec = e /\ ~snaps[k].nodesNil

\* the Go runtime ends the process: every goroutine is gone, no request is
\* served any more, what the clients hold stays as it is
ProcessKilled ==
    /\ walk' = [k \in DOMAIN walk |-> "killed"]
    /\ frames' = [k \in DOMAIN frames |-> EmptyMap]
    /\ queue' = <<>>
    /\ reads' = 0
    /\ reader' = Idle
    /\ resp' = [i \in DOMAIN resp |->
                  IF resp[i].state \in {"submitted", "encoding"}
                  THEN [resp[i] EXCEPT !.state = "lost"] ELSE resp[i]]
    /\ UNCHANGED <<faults, workflows, execs, snaps>>

\* controller lines 159 and 177: the write of Nodes[id] meets a goroutine
\* that ranges over the same map without the lock, the runtime detects it
\* ("fatal error: concurrent map iteration and map write")
ConcurrentMapFatal(e, p) ==
    /\ frames[e][p].pc = "record"
    /\ CanLock(e)
    /\ NodesReader(e)
    /\ ProcessKilled

\* docker_executor.go line 182: the index expression panics in the goroutine
\* of the node ("index out of range [0] with length 0"); nothing recovers
\* it, the process ends
ScriptPanic(e, p) ==
    /\ frames[e][p].pc = "ready"
    /\ IndexOutOfRange(e, p)
    /\ ProcessKilled

StepNames(nodeName, g, group) ==
    [j \in 1..Len(group) |-> StepNodeName(nodeName, g - 1, group[j])]

TaskNames(nodeName, tasks) ==
    [j \in 1..Len(tasks) |-> TaskNodeName(nodeName, tasks[j])]

IsKind(e, p, kind) ==
    /\ TemplateIndex(e, p) # 0
    /\ TemplateKind(TemplateOf(e, p)) = kind

\* lines 199-201 and 249-251: every level of a composite adds goroutines
\* that wait for the level below; when the nesting has used the memory up,
\* the runtime ends the process ("fatal error: out of memory")
OutOfMemory(e, p) ==
    /\ frames[e][p].pc = "ready"
    /\ IsKind(e, p, "steps") \/ IsKind(e, p, "dag")
    /\ Len(p) >= MaxDepth
    /\ ProcessKilled

\* executeStepsTemplate: the first group is dispatched, or there is none
StepsBegin(e, p) ==
    /\ frames[e][p].pc = "ready"
    /\ IsKind(e, p, "steps")
    /\ Len(p) < MaxDepth
    /\ frames' = [frames EXCEPT ![e] =
          IF TemplateOf(e, p).steps = <<>> THEN Returned(frames[e], p, NoErr)
          ELSE Dispatched(frames[e], p, 1, TemplateOf(e, p).steps[1],
                          StepNames(frames[e][p].node, 1, TemplateOf(e, p).steps[1]))]
    /\ UNCHANGED <<queue, reads, faults, workflows, execs, walk, reader, snaps, resp>>

\* a loop that goes on to the next group and returns the error of the last
StepsJoinContinue(e, p) ==
    /\ frames[e][p].pc = "join"
    /\ IsKind(e, p, "steps")
    /\ GroupDone(frames[e], p, frames[e][p].g)
    /\ frames' = [frames EXCEPT ![e] =
          IF frames[e][p].g = Len(TemplateOf(e, p).steps)
          THEN Returned(frames[e], p, FirstError(frames[e][p].errChan))
          ELSE Dispatched(frames[e], p, frames[e][p].g + 1,
                          TemplateOf(e, p).steps[frames[e][p].g + 1],
                          StepNames(frames[e][p].node, frames[e][p].g + 1,
                                    TemplateOf(e, p).steps[frames[e][p].g + 1]))]
    /\ UNCHANGED <<queue, reads, faults, workflows, execs, walk, reader, snaps, resp>>

\* lines 227-236: after wg.Wait() the first error is returned; without one
\* the next group is dispatched, or nil returned after the last
StepsJoin(e, p) ==
    /\ frames[e][p].pc = "join"
    /\ IsKind(e, p, "steps")
    /\ GroupDone(frames[e], p, frames[e][p].g)
    /\ frames' = [frames EXCEPT ![e] =
          IF FirstError(frames[e][p].errChan) # NoErr
          THEN Returned(frames[e], p, FirstError(frames[e][p].errChan))
          ELSE IF frames[e][p].g = Len(TemplateOf(e, p).steps)
          THEN Returned(frames[e], p, NoErr)
          ELSE Dispatched(frames[e], p, frames[e][p].g + 1,
                          TemplateOf(e, p).steps[frames[e][p].g + 1],
                          StepNames(frames[e][p].node, frames[e][p].g + 1,
                                    TemplateOf(e, p).steps[frames[e][p].g + 1]))]
    /\ UNCHANGED <<queue, reads, faults, workflows, execs, walk, reader, snaps, resp>>

\* a task graph that starts the tasks that declare no dependency
DagBeginRoots(e, p) ==
    /\ frames[e][p].pc = "ready"
    /\ IsKind(e, p, "dag")
    /\ Len(p) < MaxDepth
    /\ LET roots == SelectSeq(TemplateOf(e, p).tasks,
                              LAMBDA t : t.dependencies = <<>>)
       IN  frames' = [frames EXCEPT ![e] =
              Dispatched(frames[e], p, 1, roots, TaskNames(frames[e][p].node, roots))]
    /\ UNCHANGED <<queue, reads, faults, workflows, execs, walk, reader, snaps, resp>>

\* executeDAGTemplate: every task is dispatched
DagBegin(e, p) ==
    /\ frames[e][p].pc = "ready"
    /\ IsKind(e, p, "dag")
    /\ Len(p) < MaxDepth
    /\ frames' = [frames EXCEPT ![e] =
          Dispatched(frames[e], p, 1, TemplateOf(e, p).tasks,
                     TaskNames(frames[e][p].node, TemplateOf(e, p).tasks))]
    /\ UNCHANGED <<queue, reads, faults, workflows, execs, walk, reader, snaps, resp>>

\* lines 277-287
DagJoin(e, p) ==
    /\ frames[e][p].pc = "join"
    /\ IsKind(e, p, "dag")
    /\ GroupDone(frames[e], p, 1)
    /\ frames' = [frames EXCEPT ![e] =
          Returned(frames[e], p, FirstError(frames[e][p].errChan))]
    /\ UNCHANGED <<queue, reads, faults, workflows, execs, walk, reader, snaps, resp>>

-----------------------------------------------------------------------------

Names == {W, S("v"), S("u")}

Next ==
    \/ ApiSubmit
    \/ HttpReject
    \/ HttpSubmit
    \/ \E i \in DOMAIN resp : HttpEncodeBegin(i)
    \/ \E i \in DOMAIN resp : HttpEncodeEnd(i)
    \/ \E name \in Names : GetBegin(name)
    \/ GetEnd
    \/ \E name \in Names : GetNotFound(name)
    \/ ListWorkflows
    \/ \E e \in Execs : WalkStart(e)
    \/ \E e \in Execs : WalkInitNodes(e)
    \/ \E e \in Execs : WalkNoEntrypoint(e)
    \/ \E e \in Execs : WalkEntrypointNotFound(e)
    \/ \E e \in Execs : WalkExecute(e)
    \/ \E e \in Execs : WalkFailed(e)
    \/ \E e \in Execs : WalkSucceeded(e)
    \/ \E e \in Execs : \E p \in DOMAIN frames[e] : TemplateNotFound(e, p)
    \/ \E e \in Execs : \E p \in DOMAIN frames[e] : Unsupported(e, p)
    \/ \E e \in Execs : \E p \in DOMAIN frames[e] : LeafLaunch(e, p)
    \/ \E e \in Execs : \E p \in DOMAIN frames[e] : LeafAwait(e, p)
    \/ \E e \in Execs : \E p \in DOMAIN frames[e] : LeafRecord(e, p)
    \/ \E e \in Execs : \E p \in DOMAIN frames[e] : ConcurrentMapFatal(e, p)
    \/ \E e \in Execs : \E p \in DOMAIN frames[e] : ScriptPanic(e, p)
    \/ \E e \in Execs : \E p \in DOMAIN frames[e] : OutOfMemory(e, p)
    \/ \E e \in Execs : \E p \in DOMAIN frames[e] : StepsBegin(e, p)
    \/ \E e \in Execs : \E p \in DOMAIN frames[e] : StepsJoin(e, p)
    \/ \E e \in Execs : \E p \in DOMAIN frames[e] : DagBegin(e, p)
    \/ \E e \in Execs : \E p \in DOMAIN frames[e] : DagJoin(e, p)

Spec == Init /\ [][Next]_vars

\* a step of the walk of run e: of executeWorkflow or of one of the
\* goroutines it has started
WalkStep(e) ==
    \/ WalkStart(e)
    \/ WalkInitNodes(e)
    \/ WalkNoEntrypoint(e)
    \/ WalkEntrypointNotFound(e)
    \/ WalkExecute(e)
    \/ WalkFailed(e)
    \/ WalkSucceeded(e)
    \/ \E p \in DOMAIN frames[e] :
          \/ TemplateNotFound(e, p)
          \/ Unsupported(e, p)
          \/ LeafLaunch(e, p)
          \/ LeafAwait(e, p)
          \/ LeafRecord(e, p)
          \/ ScriptPanic(e, p)
          \/ OutOfMemory(e, p)
          \/ StepsBegin(e, p)
          \/ StepsJoin(e, p)
          \/ DagBegin(e, p)
          \/ DagJoin(e, p)

\* the scheduler runs a goroutine that can take a step, every call to the
\* Docker client returns, and GetWorkflow releases the locks it took
FairSpec ==
    /\ Spec
    /\ WF_vars(\E e \in Execs : WalkStep(e))
    /\ WF_vars(GetEnd)

-----------------------------------------------------------------------------
(* Properties of the walk *)

\* q is a call made, directly or not, by the call at p
Under(q, p) == Len(q) > Len(p) /\ SubSeq(q, 1, Len(p)) = p

\* the group of the composite at p that q was made under
GroupOf(q, p) == q[Len(p) + 1][1]

Composite(e, p) == IsKind(e, p, "steps") \/ IsKind(e, p, "dag")

Failed(f) == f.pc = "done" /\ f.err # NoErr

\* C1: in a step list, a call (and so a container) of a later group exists
\* only when every call made under every earlier group has returned.
C1_Barrier ==
    \A e \in Execs : \A p \in DOMAIN frames[e] :
        IsKind(e, p, "steps") =>
            \A q \in DOMAIN frames[e], r \in DOMAIN frames[e] :
                (Under(q, p) /\ Under(r, p) /\ GroupOf(r, p) < GroupOf(q, p))
                    => frames[e][r].pc = "done"

\* a container of the second group runs after two steps of the first group,
\* and a task graph nested in the first group, have returned
C1_Witness ==
    \E e \in Execs : \E p \in DOMAIN frames[e] :
        /\ IsKind(e, p, "steps")
        /\ \E q \in Children(frames[e], p, 2) : frames[e][q].unit = "running"
        /\ \/ Cardinality(Children(frames[e], p, 1)) = 2
           \/ \E r \in DOMAIN frames[e] : Under(r, p) /\ Len(r) = Len(p) + 2

\* C2: a composite returns only when every call under it has returned, the
\* walk ends only when every call has returned, a container that was started
\* can always be waited for whatever its siblings did, and a task graph of
\* leaf tasks of which exactly one exits non-zero (the runtime not failing)
\* ends with every task in a terminal phase and the run Failed.
C2_WaitAll ==
    \A e \in Execs :
        /\ \A p \in DOMAIN frames[e] :
              /\ (Composite(e, p) /\ frames[e][p].pc = "done")
                    => \A q \in DOMAIN frames[e] :
                          Under(q, p) => frames[e][q].pc = "done"
              /\ frames[e][p].pc = "waiting" => ENABLED LeafAwait(e, p)
        /\ walk[e] = "done" => \A q \in DOMAIN frames[e] : frames[e][q].pc = "done"
        /\ ( /\ walk[e] = "done"
             /\ faults = {}
             /\ <<>> \in DOMAIN frames[e]
             /\ IsKind(e, <<>>, "dag")
             /\ Len(TemplateOf(e, <<>>).tasks) > 0
             /\ \A j \in 1..Len(TemplateOf(e, <<>>).tasks) :
                    LET k == FindTemplate(execs[e], TemplateOf(e, <<>>).tasks[j].template)
                    IN  k # 0 /\ TemplateKind(execs[e].templates[k]) \in {"container", "script"}
             /\ Cardinality({q \in Children(frames[e], <<>>, 1) :
                                frames[e][q].ns.phase # NodeSucceeded}) = 1 )
           => /\ Cardinality(Children(frames[e], <<>>, 1)) = Len(TemplateOf(e, <<>>).tasks)
              /\ \A q \in Children(frames[e], <<>>, 1) :
                    /\ frames[e][q].ns.phase \in {NodeSucceeded, NodeFailed}
                    /\ frames[e][q].ns.id \in DOMAIN execs[e].status.nodes
              /\ execs[e].status.phase = WorkflowFailed

\* a task graph of three tasks has ended Failed: one failed, two succeeded
C2_Witness ==
    \E e \in Execs :
        /\ walk[e] = "done"
        /\ <<>> \in DOMAIN frames[e]
        /\ IsKind(e, <<>>, "dag")
        /\ execs[e].status.phase = WorkflowFailed
        /\ Cardinality({q \in Children(frames[e], <<>>, 1) :
                           frames[e][q].ns.phase = NodeFailed}) = 1
        /\ Cardinality({q \in Children(frames[e], <<>>, 1) :
                           frames[e][q].ns.phase = NodeSucceeded}) = 2

DirectChildren(fs, p) == {q \in DOMAIN fs : Under(q, p) /\ Len(q) = Len(p) + 1}

\* C3: a composite that has returned returned an error exactly when one of
\* the calls it dispatched returned an error.
C3_FailsIffChildFails ==
    \A e \in Execs : \A p \in DOMAIN frames[e] :
        (Composite(e, p) /\ frames[e][p].pc = "done")
            => ( frames[e][p].err # NoErr
                 <=> \E q \in DirectChildren(frames[e], p) : Failed(frames[e][q]) )

\* a composite has returned an error: one of its children failed and
\* another did not
C3_Witness ==
    \E e \in Execs : \E p \in DOMAIN frames[e] :
        /\ Composite(e, p)
        /\ frames[e][p].pc = "done"
        /\ frames[e][p].err # NoErr
        /\ \E q \in DirectChildren(frames[e], p) : Failed(frames[e][q])
        /\ \E q \in DirectChildren(frames[e], p) : ~Failed(frames[e][q])

\* C4: once a step of group i has failed, no call is ever made for a later
\* group, and the step list returns, after every step of group i, an error
\* of a step of group i.
C4_FailureStopsLaterGroups ==
    \A e \in Execs : \A p \in DOMAIN frames[e] :
        IsKind(e, p, "steps") =>
            \A q \in DirectChildren(frames[e], p) :
                Failed(frames[e][q]) =>
                    /\ \A r \in DOMAIN frames[e] :
                          Under(r, p) => GroupOf(r, p) <= GroupOf(q, p)
                    /\ frames[e][p].pc = "done" =>
                          /\ GroupDone(frames[e], p, GroupOf(q, p))
                          /\ \E c \in Children(frames[e], p, GroupOf(q, p)) :
                                Failed(frames[e][c]) /\ frames[e][p].err = frames[e][c].err

\* a step list of two groups has returned the error of a step of its first
\* group, whose sibling ran to its end
C4_Witness ==
    \E e \in Execs : \E p \in DOMAIN frames[e] :
        /\ IsKind(e, p, "steps")
        /\ Len(TemplateOf(e, p).steps) = 2
        /\ frames[e][p].pc = "done"
        /\ \E q \in Children(frames[e], p, 1), r \in Children(frames[e], p, 1) :
              /\ Failed(frames[e][q])
              /\ frames[e][r].ns.phase = NodeSucceeded
        /\ Children(frames[e], p, 2) = {}

-----------------------------------------------------------------------------
(* Properties of the registry and of the status of a run *)

\* the next request is a submission that the server takes or refuses
Submitting == queue # <<>> /\ queue' = Tail(queue)

\* C5: a submission under a name the registry holds changes neither the
\* registry nor the runs, and starts no walk.
C5_DuplicateRunRejected ==
    [][(Submitting /\ Head(queue).wf.name \in DOMAIN workflows)
          => (workflows' = workflows /\ execs' = execs /\ walk' = walk)]_vars

\* C6: what a returned workflow holds, its node-status map included, stays
\* what it was when GetWorkflow or ListWorkflows copied it.
C6_SnapshotIndependent ==
    \A i \in DOMAIN snaps : SnapshotNodes(snaps[i]) = snaps[i].copied

\* a request reads the status of the run: GetWorkflow between its RLock and
\* RUnlock, or the submit handler encoding its response
ReadInProgress(e) ==
    \/ reader.exec = e
    \/ \E i \in DOMAIN resp : resp[i].exec = e /\ resp[i].state = "encoding"

\* C7: the status of a run is not written while a request reads it (every
\* reader and every writer holding the lock of the run).
C7_NoReadOverlapsWrite ==
    [][\A e \in Execs :
          execs'[e].status # execs[e].status => ~ReadInProgress(e)]_vars

\* C8: the phase of a run starts Pending and only goes Pending -> Running ->
\* Succeeded or Failed; a Succeeded or Failed run keeps its phase, message
\* and finish time.
C8_PhaseLifecycle ==
    [][\A e \in Execs :
          /\ execs'[e].status.phase # execs[e].status.phase
                => <<execs[e].status.phase, execs'[e].status.phase>> \in
                      {<<WorkflowPending, WorkflowRunning>>,
                       <<WorkflowRunning, WorkflowSucceeded>>,
                       <<WorkflowRunning, WorkflowFailed>>}
          /\ execs[e].status.phase \in {WorkflowSucceeded, WorkflowFailed}
                => /\ execs'[e].status.phase = execs[e].status.phase
                   /\ execs'[e].status.message = execs[e].status.message
                   /\ execs'[e].status.finishedAt = execs[e].status.finishedAt]_vars

\* C9: a run that SubmitWorkflow has registered, and whose walk has not yet
\* taken a step, is in phase Pending.
C9_RegisteredPending ==
    \A e \in Execs : walk[e] = "start" => execs[e].status.phase = WorkflowPending

\* C10: a terminal phase stored under a node identifier is never replaced by
\* another phase.
C10_NodePhaseFinal ==
    [][\A e \in Execs : \A id \in DOMAIN execs[e].status.nodes :
          execs[e].status.nodes[id].phase \in {NodeSucceeded, NodeFailed, NodeError}
             => execs'[e].status.nodes[id].phase = execs[e].status.nodes[id].phase]_vars

-----------------------------------------------------------------------------
(* Structural errors, the result of a unit of work, the adapter *)

\* the entrypoint of the document is empty or names no template
NoEntryTemplate(wf) == wf.entrypoint = <<>> \/ FindTemplate(wf, wf.entrypoint) = 0

\* the call at p has created a container
CreatedUnit(f) == \E k \in DOMAIN f.rt : f.rt[k].op = "create" /\ f.rt[k].ok

\* C11: a document whose entrypoint is empty or names no template is refused
\* with 400 by the handler (no run is made of it) or becomes a run for which
\* no call of executeTemplate is made, so no container is created, and whose
\* walk ends in phase Failed with the message of the missing entrypoint.
C11_NoEntrypointFails ==
    /\ \A i \in DOMAIN resp : resp[i].code = 400 => resp[i].exec = 0
    /\ \A e \in Execs :
          NoEntryTemplate(execs[e]) =>
             /\ frames[e] = EmptyMap
             /\ walk[e] \in {"start", "init", "resolve", "done", "killed"}
             /\ walk[e] = "done" =>
                   /\ execs[e].status.phase = WorkflowFailed
                   /\ execs[e].status.finishedAt
                   /\ execs[e].status.message =
                         IF execs[e].entrypoint = <<>>
                         THEN S("No entrypoint specified")
                         ELSE S("Entrypoint template '") \o execs[e].entrypoint
                              \o S("' not found")

\* all three ways have been taken: a submission without entrypoint refused,
\* a run without entrypoint Failed, a run with an unknown entrypoint Failed
C11_Witness ==
    /\ \E i \in DOMAIN resp : resp[i].code = 400
    /\ \E e \in Execs : /\ execs[e].entrypoint = <<>>
                        /\ walk[e] = "done"
                        /\ execs[e].status.phase = WorkflowFailed
    /\ \E e \in Execs : /\ execs[e].entrypoint # <<>>
                        /\ NoEntryTemplate(execs[e])
                        /\ Len(execs[e].templates) > 0
                        /\ walk[e] = "done"
                        /\ execs[e].status.phase = WorkflowFailed

\* the references of a template's steps and tasks
RefsOf(t) ==
    UNION {{t.steps[g][i].template : i \in DOMAIN t.steps[g]} : g \in DOMAIN t.steps}
    \cup {t.tasks[i].template : i \in DOMAIN t.tasks}

\* some step or task of the document names a template the document lacks
HasDanglingRef(wf) ==
    \E k \in DOMAIN wf.templates :
       \E r \in RefsOf(wf.templates[k]) : FindTemplate(wf, r) = 0

\* C12: a run whose document holds a step or task that names a missing
\* template never has a runtime unit created for any of its nodes.
C12_DanglingRefNoUnit ==
    \A e \in Execs :
       HasDanglingRef(execs[e]) =>
          \A p \in DOMAIN frames[e] : ~CreatedUnit(frames[e][p])
\* the run of e is a single unit of work: its entrypoint is a container or a
\* script template
SingleUnit(e) ==
    /\ <<>> \in DOMAIN frames[e]
    /\ IsLeaf(e, <<>>)

\* the runtime unit of frame f reached a terminal state with exit code c
ExitedWith(f, c) ==
    \E k \in DOMAIN f.rt : f.rt[k] = Call("wait", TRUE, c)

\* the output of the unit was read
LogsRead(f) == \E k \in DOMAIN f.rt : f.rt[k] = Call("logs", TRUE, 0)

Contains(s, sub) ==
    \E k \in 0..(Len(s) - Len(sub)) : SubSeq(s, k + 1, k + Len(sub)) = sub

\* C13: in a single unit-of-work run whose unit exited with code c, the node
\* is Succeeded when c = 0 and Failed with a message that contains c
\* otherwise, it carries the output read as `logs`, it is the entry of the
\* status tree once the call has returned, and the run ends Succeeded when
\* c = 0 and Failed otherwise.
C13_ExitCodeMapping ==
    \A e \in Execs : \A c \in 0..MaxExit :
       LET f == frames[e][<<>>] IN
       (SingleUnit(e) /\ ExitedWith(frames[e][<<>>], c)) =>
          /\ f.ns.phase = IF c = 0 THEN NodeSucceeded ELSE NodeFailed
          /\ c # 0 => Contains(f.ns.message, Itoa(c))
          /\ LogsRead(f) =>
                f.ns.outputs = <<[name |-> "logs", value |-> S("output")]>>
          /\ f.pc = "done" =>
                /\ f.ns.id \in DOMAIN execs[e].status.nodes
                /\ execs[e].status.nodes[f.ns.id] = f.ns
          /\ walk[e] = "done" =>
                /\ execs[e].status.phase =
                      IF c = 0 THEN WorkflowSucceeded ELSE WorkflowFailed
                /\ execs[e].status.finishedAt

C13_Witness ==
    \E e \in Execs :
       /\ SingleUnit(e)
       /\ ExitedWith(frames[e][<<>>], 1)
       /\ LogsRead(frames[e][<<>>])
       /\ walk[e] = "done"
       /\ execs[e].status.phase = WorkflowFailed
\* the wait for the runtime unit of frame f returned an error
WaitErrored(f) == \E k \in DOMAIN f.rt : f.rt[k] = Call("wait", FALSE, 0)

\* C14: once the call of a unit of work whose wait returned an error is
\* over, the status tree of the run holds the node in phase Error with the
\* text of the error as its message, and the run that has finished is Failed.
C14_WaitErrorRecorded ==
    \A e \in Execs : \A p \in DOMAIN frames[e] :
       (WaitErrored(frames[e][p]) /\ frames[e][p].pc = "done") =>
          /\ frames[e][p].ns.id \in DOMAIN execs[e].status.nodes
          /\ execs[e].status.nodes[frames[e][p].ns.id].phase = NodeError
          /\ execs[e].status.nodes[frames[e][p].ns.id].message = frames[e][p].ns.message
          /\ walk[e] = "done" => execs[e].status.phase = WorkflowFailed
\* the adapter called ContainerRemove for the unit of frame f
DestroyAttempted(f) == \E k \in DOMAIN f.rt : f.rt[k].op = "remove"

\* the adapter's call for frame f has returned
AdapterReturned(f) == f.pc \in {"record", "done"}

\* C15: when the adapter returns, a force-destroy has been attempted on the
\* runtime unit it created, whatever the outcome was.
C15_CreatedUnitDestroyed ==
    \A e \in Execs : \A p \in DOMAIN frames[e] :
       (CreatedUnit(frames[e][p]) /\ AdapterReturned(frames[e][p])) =>
          DestroyAttempted(frames[e][p])
\* C16: after the unit exited with code c, the phase and the message of the
\* node are those of c, whether or not the output could be read and the unit
\* removed; the adapter returns the node without an error, so the node is
\* stored, and the call fails exactly when c is not 0.
C16_CleanupNeverMasks ==
    \A e \in Execs : \A p \in DOMAIN frames[e] : \A c \in 0..MaxExit :
       LET f == frames[e][p] IN
       ExitedWith(frames[e][p], c) =>
          /\ AdapterReturned(f)
          /\ f.ns.phase = IF c = 0 THEN NodeSucceeded ELSE NodeFailed
          /\ f.ns.message =
                IF c = 0 THEN <<>>
                ELSE S(TemplateKind(TemplateOf(e, p))) \o S(" ") \o S("exited with code ")
                        \o Itoa(c)
          /\ f.pc = "done" =>
                /\ f.ns.id \in DOMAIN execs[e].status.nodes
                /\ (f.err = NoErr) <=> (c = 0)

C16_Witness ==
    \E e \in Execs : \E p \in DOMAIN frames[e] :
       /\ ExitedWith(frames[e][p], 0)
       /\ \E k \in DOMAIN frames[e][p].rt : frames[e][p].rt[k] = Call("logs", FALSE, 0)
       /\ \E k \in DOMAIN frames[e][p].rt : frames[e][p].rt[k] = Call("remove", FALSE, 0)
       /\ frames[e][p].pc = "done"
       /\ frames[e][p].ns.phase = NodeSucceeded
       /\ frames[e][p].err = NoErr
-----------------------------------------------------------------------------
(* Submission and the walk *)

\* C17: when SubmitWorkflow returns, the run is in the registry under its
\* name, where Get and List find it, and its walk has not taken a step: no
\* template is being executed and no runtime unit exists.
C17_SubmitReturnsBeforeWalk ==
    [][Len(execs') > Len(execs) =>
          LET e == Len(execs') IN
          /\ execs'[e].name \in DOMAIN workflows'
          /\ workflows'[execs'[e].name] = e
          /\ walk'[e] = "start"
          /\ frames'[e] = EmptyMap]_vars

\* a snapshot of a run was returned and the walk of the run has yet to start
C17_Witness ==
    \E k \in DOMAIN snaps :
       /\ walk[snaps[k].exec] = "start"
       /\ frames[snaps[k].exec] = EmptyMap
       /\ workflows[snaps[k].name] = snaps[k].exec
\* the error of a cancelled context
ContextCanceled == S("context canceled")

\* C18: the end of the request that submitted a run never fails a call of
\* its walk: no Docker call of the run returns the error of a cancelled
\* context, neither a call of the walk nor the run itself carries that error.
C18_WalkDetached ==
    \A e \in Execs :
       /\ ~Cancelled(e)
       /\ \A p \in DOMAIN frames[e] :
             /\ ~Contains(frames[e][p].err, ContextCanceled)
             /\ ~Contains(frames[e][p].ns.message, ContextCanceled)
       /\ ~Contains(execs[e].status.message, ContextCanceled)

\* the response was sent while the run was Pending, and the walk went through
\* to the end after that
C18_Witness ==
    \E e \in Execs : \E i \in DOMAIN resp :
       /\ resp[i].exec = e
       /\ resp[i].state = "sent"
       /\ resp[i].phase = WorkflowPending
       /\ RequestOver(e)
       /\ walk[e] = "done"
       /\ execs[e].status.phase = WorkflowSucceeded
       /\ \E p \in DOMAIN frames[e] : ExitedWith(frames[e][p], 0)
\* the most runs a client submits
MaxRuns ==
    LET lens == {Len(sc.queue) : sc \in Scenarios}
    IN  CHOOSE n \in lens : \A m \in lens : m <= n

\* C19: every run that SubmitWorkflow has accepted is, in the end, Succeeded
\* or Failed with its finish time recorded (every call to the runtime
\* returns).
C19_RunTerminates ==
    \A k \in 1..MaxRuns :
       (k \in Execs) ~>
          (/\ k \in Execs
           /\ execs[k].status.phase \in {WorkflowSucceeded, WorkflowFailed}
           /\ execs[k].status.finishedAt)
\* what the client reads in a returned workflow
Content(s) ==
    [name |-> s.name, phase |-> s.phase, message |-> s.message,
     startedAt |-> s.startedAt, finishedAt |-> s.finishedAt,
     nodes |-> IF s.nodesNil THEN EmptyMap ELSE s.copied]

\* C20: a workflow returned under a name after the walk of the run had
\* finished equals every workflow returned under that name later on.
C20_FinishedSnapshotsEqual ==
    \A i \in DOMAIN snaps : \A j \in DOMAIN snaps :
       (i < j /\ snaps[i].name = snaps[j].name /\ snaps[i].final) =>
          Content(snaps[j]) = Content(snaps[i])
-----------------------------------------------------------------------------
(* The node-status map, node names and container names *)

\* the unit of frame f reached a terminal state
UnitExited(f) == \E c \in 0..MaxExit : ExitedWith(f, c)

\* the calls of group g of the composite at p are units of work with
\* pairwise distinct names, all of them have returned, and every unit exited
ParallelLeavesDone(e, p, g) ==
    LET kids == Children(frames[e], p, g) IN
    /\ Composite(e, p)
    /\ kids # {}
    /\ \A q \in kids : /\ IsLeaf(e, q)
                       /\ frames[e][q].pc = "done"
                       /\ UnitExited(frames[e][q])
    /\ \A q \in kids : \A r \in kids : frames[e][q].name = frames[e][r].name => q = r

\* C21: after a parallel group or a task graph of units of work with
\* pairwise distinct names has completed, every unit having exited, the
\* node-status map holds one entry for each of them, under an identifier of
\* its own, and the entry is the status that the unit's own call got back.
C21_NoLostUpdate ==
    \A e \in Execs : \A p \in DOMAIN frames[e] : \A g \in 1..frames[e][p].g :
       ParallelLeavesDone(e, p, g) =>
          LET kids == Children(frames[e], p, g) IN
          /\ \A q \in kids :
                /\ frames[e][q].ns.id \in DOMAIN execs[e].status.nodes
                /\ execs[e].status.nodes[frames[e][q].ns.id] = frames[e][q].ns
          /\ Cardinality({frames[e][q].ns.id : q \in kids}) = Cardinality(kids)

\* a task graph of three units has completed and the three statuses stored
\* are not all the same
C21_Witness ==
    \E e \in Execs : \E p \in DOMAIN frames[e] :
       /\ IsKind(e, p, "dag")
       /\ ParallelLeavesDone(e, p, 1)
       /\ Cardinality(Children(frames[e], p, 1)) = 3
       /\ \E q \in Children(frames[e], p, 1) : frames[e][q].ns.phase = NodeFailed
       /\ \E q \in Children(frames[e], p, 1) : frames[e][q].ns.phase = NodeSucceeded
\* executeTemplate was called at p: for the entrypoint, or for a step or a
\* task whose template was found
Executed(e, p) == p \in DOMAIN frames[e] /\ TemplateIndex(e, p) # 0

\* C22: when the walk has finished, the node-status map holds an entry for
\* every position executeTemplate was called at, composites included.
C22_EntryPerPosition ==
    \A e \in Execs :
       walk[e] = "done" =>
          \A p \in DOMAIN frames[e] :
             Executed(e, p) =>
                NodeID(execs[e].name, frames[e][p].node) \in DOMAIN execs[e].status.nodes
\* C23: two different positions that executeTemplate was called at have
\* different node names and different node identifiers.
C23_DistinctNodeNames ==
    \A e \in Execs : \A p \in DOMAIN frames[e] : \A q \in DOMAIN frames[e] :
       (p # q /\ Executed(e, p) /\ Executed(e, q)) =>
          /\ frames[e][p].node # frames[e][q].node
          /\ NodeID(execs[e].name, frames[e][p].node)
                # NodeID(execs[e].name, frames[e][q].node)
\* the declared variables of a template, those of its container first
Declared(t) ==
    (IF "container" \in t.has THEN t.containerEnv ELSE <<>>)
    \o (IF "script" \in t.has THEN t.scriptEnv ELSE <<>>)

\* C24: the environment of a unit of work is the run name, the node name and
\* the template name under the three injected names, in that order, followed
\* by the variables the template declares in the order of the document; a
\* declared variable that bears an injected name comes after them and takes
\* the place of none.
C24_EnvInjectedFirst ==
    \A e \in Execs : \A p \in DOMAIN frames[e] :
       frames[e][p].env # <<>> =>
          LET env == frames[e][p].env
              t == TemplateOf(e, p)
          IN  /\ Len(env) = 3 + Len(Declared(t))
              /\ env[1] = <<"ARGO_WORKFLOW_NAME", "=">> \o execs[e].name
              /\ env[2] = <<"ARGO_NODE_NAME", "=">> \o frames[e][p].node
              /\ env[3] = <<"ARGO_TEMPLATE_NAME", "=">> \o t.name
              /\ \A i \in DOMAIN Declared(t) :
                    env[3 + i] = Declared(t)[i].name \o <<"=">> \o Declared(t)[i].value

\* the environment of a container whose template declares ARGO_NODE_NAME
\* after another variable
C24_Witness ==
    \E e \in Execs : \E p \in DOMAIN frames[e] :
       /\ Len(frames[e][p].env) = 5
       /\ frames[e][p].env[5] = <<"ARGO_NODE_NAME", "=", "x">>
       /\ frames[e][p].env[2] = <<"ARGO_NODE_NAME", "=">> \o frames[e][p].node
       /\ frames[e][p].unit = "running"
\* the characters the runtime allows in the name of a container
Letters ==
    {"a", "b", "c", "d", "e", "f", "g", "h", "i", "j", "k", "l", "m",
     "n", "o", "p", "q", "r", "s", "t", "u", "v", "w", "x", "y", "z",
     "A", "B", "C", "D", "E", "F", "G", "H", "I", "J", "K", "L", "M",
     "N", "O", "P", "Q", "R", "S", "T", "U", "V", "W", "X", "Y", "Z"}
AllowedInName == Letters \cup {Digits[i] : i \in DOMAIN Digits} \cup {"_", ".", "-"}

\* C25: the name given to ContainerCreate holds allowed characters only.
C25_ContainerNameAllowed ==
    \A e \in Execs : \A p \in DOMAIN frames[e] :
       \A i \in DOMAIN frames[e][p].cname : frames[e][p].cname[i] \in AllowedInName
\* the container of frame f exists in the runtime
Live(f) == f.unit \in {"created", "running", "exited"}

\* C26: two containers that exist at the same time for different (run name,
\* node name) pairs have different names.
C26_ContainerNameUnique ==
    \A e \in Execs : \A d \in Execs :
       \A p \in DOMAIN frames[e] : \A q \in DOMAIN frames[d] :
          ( /\ Live(frames[e][p])
            /\ Live(frames[d][q])
            /\ <<execs[e].name, frames[e][p].node>> # <<execs[d].name, frames[d][q].node>> )
          => frames[e][p].cname # frames[d][q].cname
-----------------------------------------------------------------------------
(* Task graphs, the message of a failed run, independent runs *)

\* the call made for task j of the task graph at p
TaskCall(p, j) == Append(p, <<1, j>>)

\* C27: once a task graph has dispatched, there is a call for every one of
\* its tasks, whatever dependencies the tasks declare, and the container of
\* a task that has not started can be started whatever state the other
\* tasks are in.
C27_TasksUnconditional ==
    \A e \in Execs : \A p \in DOMAIN frames[e] :
       (IsKind(e, p, "dag") /\ frames[e][p].pc \in {"join", "done"}) =>
          \A j \in DOMAIN TemplateOf(e, p).tasks :
             /\ TaskCall(p, j) \in DOMAIN frames[e]
             /\ frames[e][TaskCall(p, j)].name = TemplateOf(e, p).tasks[j].name
             /\ (frames[e][TaskCall(p, j)].pc = "ready" /\ IsLeaf(e, TaskCall(p, j)))
                   => ENABLED LeafLaunch(e, TaskCall(p, j))

\* Y declares to depend on X and Z on Y: Y and Z run together while X has
\* not started
C27_Witness ==
    \E e \in Execs :
       /\ <<>> \in DOMAIN frames[e]
       /\ IsKind(e, <<>>, "dag")
       /\ Len(TemplateOf(e, <<>>).tasks) = 3
       /\ TemplateOf(e, <<>>).tasks[2].dependencies = <<TemplateOf(e, <<>>).tasks[1].name>>
       /\ TaskCall(<<>>, 3) \in DOMAIN frames[e]
       /\ frames[e][TaskCall(<<>>, 1)].pc = "ready"
       /\ frames[e][TaskCall(<<>>, 2)].unit = "running"
       /\ frames[e][TaskCall(<<>>, 3)].unit = "running"
\* the call at q is not a composite that dispatched: a unit of work, or a
\* step or task that could not be executed
Childless(e, q) == DirectChildren(frames[e], q) = {}

\* C28: the message of a run that ended Failed after its entrypoint was
\* executed is the error of a call that did fail in the run; when that call
\* is a unit that exited, the error carries the node's message; and the error
\* a composite returns is the first one its children sent, every error sent
\* being that of a child that failed.
C28_MessageOfFirstFailure ==
    \A e \in Execs :
       /\ \A p \in DOMAIN frames[e] :
             (Composite(e, p) /\ Failed(frames[e][p])) =>
                /\ frames[e][p].errChan # <<>>
                /\ frames[e][p].err = frames[e][p].errChan[1]
                /\ \A k \in DOMAIN frames[e][p].errChan :
                      \E q \in Children(frames[e], p, frames[e][p].g) :
                         Failed(frames[e][q]) /\ frames[e][q].err = frames[e][p].errChan[k]
       /\ ( /\ walk[e] = "done"
            /\ execs[e].status.phase = WorkflowFailed
            /\ <<>> \in DOMAIN frames[e] )
          => /\ execs[e].status.message = frames[e][<<>>].err
             /\ \E q \in DOMAIN frames[e] :
                   /\ Childless(e, q)
                   /\ Failed(frames[e][q])
                   /\ frames[e][q].err = execs[e].status.message
                   /\ UnitExited(frames[e][q]) =>
                         /\ frames[e][q].ns.phase = NodeFailed
                         /\ frames[e][q].ns.message # <<>>
                         /\ Contains(execs[e].status.message, frames[e][q].ns.message)

\* two siblings failed with different messages and the run carries the one
\* that was sent first
C28_Witness ==
    \E e \in Execs :
       /\ walk[e] = "done"
       /\ execs[e].status.phase = WorkflowFailed
       /\ <<>> \in DOMAIN frames[e]
       /\ Len(frames[e][<<>>].errChan) = 2
       /\ frames[e][<<>>].errChan[1] # frames[e][<<>>].errChan[2]
       /\ execs[e].status.message = frames[e][<<>>].errChan[1]
\* the walk of run e has a step left to take
Walking(e) == walk[e] \notin {"done", "killed"}

C30_ResponsePending ==
    \A i \in DOMAIN resp :
       (resp[i].code = 201 /\ resp[i].posted = "") => resp[i].phase = WorkflowPending
-----------------------------------------------------------------------------
(* The adapter: messages, order of the calls, outputs, the script command *)

\* C31 as stated: the message of a unit that exited with code N # 0 is
\* exactly "exited with code N".
C31_MessageExact ==
    \A e \in Execs : \A p \in DOMAIN frames[e] : \A c \in 1..MaxExit :
       ExitedWith(frames[e][p], c) =>
          frames[e][p].ns.message = S("exited with code ") \o Itoa(c)

\* C31 amended: the message of a unit that exited with code N # 0 is
\* "container exited with code N" for a container template and "script
\* exited with code N" for a script template.
C31_MessageWithKind ==
    \A e \in Execs : \A p \in DOMAIN frames[e] : \A c \in 1..MaxExit :
       ExitedWith(frames[e][p], c) =>
          frames[e][p].ns.message =
             (IF "container" \in TemplateOf(e, p).has THEN S("container") ELSE S("script"))
             \o S(" ") \o S("exited with code ") \o Itoa(c)

\* a script and a container of one run have both exited with code 1
C31_Witness ==
    \E e \in Execs : \E p \in DOMAIN frames[e] : \E q \in DOMAIN frames[e] :
       /\ ExitedWith(frames[e][p], 1)
       /\ ExitedWith(frames[e][q], 1)
       /\ frames[e][p].ns.message = <<"script", " ", "exited with code ", "1">>
       /\ frames[e][q].ns.message = <<"container", " ", "exited with code ", "1">>
\* the place of a call in the protocol of the adapter
Rank(op) ==
    CASE op = "create" -> 1
      [] op = "start" -> 2
      [] op = "wait" -> 3
      [] op = "logs" -> 4
      [] op = "remove" -> 5

\* C32: the calls the adapter makes for a unit come in the order create,
\* start, wait, logs, remove, each at most once; a unit is started only when
\* it was created, waited for only when it was started, its output read only
\* after its wait reported the exit and before the call that removes it.
C32_ProtocolOrder ==
    \A e \in Execs : \A p \in DOMAIN frames[e] :
       LET rt == frames[e][p].rt IN
       /\ \A i \in DOMAIN rt : \A j \in DOMAIN rt :
             i < j => Rank(rt[i].op) < Rank(rt[j].op)
       /\ \A j \in DOMAIN rt :
             /\ rt[j].op = "start" => \E i \in 1..(j - 1) : rt[i] = Call("create", TRUE, 0)
             /\ rt[j].op = "wait" => \E i \in 1..(j - 1) : rt[i] = Call("start", TRUE, 0)
             /\ rt[j].op = "logs" =>
                   /\ \E i \in 1..(j - 1) : rt[i].op = "wait" /\ rt[i].ok
                   /\ \A i \in 1..(j - 1) : rt[i].op # "remove"
             /\ rt[j].op = "remove" => \E i \in 1..(j - 1) : rt[i].op = "logs"

\* the five calls were made for a unit and none failed
C32_Witness ==
    \E e \in Execs : \E p \in DOMAIN frames[e] :
       /\ Len(frames[e][p].rt) = 5
       /\ \A k \in 1..5 : frames[e][p].rt[k].ok
       /\ frames[e][p].rt[4].op = "logs"
       /\ frames[e][p].rt[5].op = "remove"
\* C33: a node status of the adapter has no output or the one output `logs`;
\* it has it exactly when the unit exited and its output could be read, and
\* a node in phase Error has none.
C33_LogsOutput ==
    \A e \in Execs : \A p \in DOMAIN frames[e] :
       LET ns == frames[e][p].ns IN
       /\ Len(ns.outputs) <= 1
       /\ \A k \in DOMAIN ns.outputs : ns.outputs[k].name = "logs"
       /\ ns.outputs # <<>> <=>
             /\ UnitExited(frames[e][p])
             /\ LogsRead(frames[e][p])
             /\ ns.phase \in {NodeSucceeded, NodeFailed}
       /\ ns.phase = NodeError => ns.outputs = <<>>

\* a unit exited with code 1 and its output could not be read: the node is
\* Failed and has no output
C33_Witness ==
    \E e \in Execs : \E p \in DOMAIN frames[e] :
       /\ ExitedWith(frames[e][p], 1)
       /\ \E k \in DOMAIN frames[e][p].rt : frames[e][p].rt[k] = Call("logs", FALSE, 0)
       /\ frames[e][p].ns.phase = NodeFailed
       /\ frames[e][p].ns.outputs = <<>>
       /\ frames[e][p].pc = "done"
\* C34: ExecuteScript of any script template, one with an empty command list
\* included, goes on to create the container (it does not end the process),
\* and the command it builds is the declared command followed by "-c" and
\* the source
C34_ScriptCommand ==
    \A e \in Execs : \A p \in DOMAIN frames[e] :
        (IsLeaf(e, p) /\ TemplateKind(TemplateOf(e, p)) = "script") =>
            /\ frames[e][p].pc = "ready" => ENABLED LeafLaunch(e, p)
            /\ frames[e][p].pc # "ready" =>
                  frames[e][p].cmd = TemplateOf(e, p).command
                                     \o <<S("-c"), TemplateOf(e, p).source>>

-----------------------------------------------------------------------------
(* Termination of a run, what a finished run shows, locks, recursion *)

Terminal(e) == execs[e].status.phase \in {WorkflowSucceeded, WorkflowFailed}

\* a call of executeTemplate of run e that has not returned
Pending(e) == {p \in DOMAIN frames[e] : frames[e][p].pc # "done"}

\* C35: while the phase of a run is Succeeded or Failed, its walk is over:
\* executeWorkflow and every call of executeTemplate it made have returned, no
\* unit is between its creation and the return of the adapter.
C35_QuiescentWhenTerminal ==
    \A e \in Execs :
        Terminal(e) =>
            /\ ~Walking(e)
            /\ Pending(e) = {}

\* C36: a run in phase Succeeded has an empty message and every entry of
\* its map of nodes is Succeeded.
C36_SucceededIsClean ==
    \A e \in Execs :
        execs[e].status.phase = WorkflowSucceeded =>
            /\ execs[e].status.message = <<>>
            /\ \A id \in DOMAIN execs[e].status.nodes :
                  execs[e].status.nodes[id].phase = NodeSucceeded

\* C37: in every workflow that GetWorkflow or ListWorkflows returned, the
\* finish time is set exactly when the phase is Succeeded or Failed, and a
\* message is set only when the phase is Failed.
C37_SnapshotCoherent ==
    \A k \in DOMAIN snaps :
        /\ snaps[k].finishedAt <=>
              snaps[k].phase \in {WorkflowSucceeded, WorkflowFailed}
        /\ snaps[k].message # <<>> => snaps[k].phase = WorkflowFailed

\* a SubmitWorkflow, or the handler that refuses the document
SubmitStep == ApiSubmit \/ HttpSubmit \/ HttpReject

\* the goroutine of run e, or the one that submits, waits for a lock
WalkBlocked(e) == Walking(e) /\ ~ENABLED WalkStep(e)
SubmitBlocked == queue # <<>> /\ ~ENABLED SubmitStep

\* C38: a goroutine that holds locks waits for none (GetWorkflow, the only
\* one that holds two, took the lock of the registry before that of the run
\* and can return); a walk waits for the lock of its own run only, a
\* submission for that of the registry only; so whenever a goroutine waits
\* for a lock, the one that holds it can take a step and release it.
C38_NoDeadlock ==
    /\ reader.op = "get" => ENABLED GetEnd
    /\ reader.exec # 0 => ~CanLockRegistry
    /\ \A e \in Execs : WalkBlocked(e) => reader.exec = e
    /\ SubmitBlocked => reader.op = "get"
    /\ (SubmitBlocked \/ \E e \in Execs : WalkBlocked(e)) => ENABLED GetEnd

\* GetWorkflow holds both locks; the walk of the run it reads waits for the
\* lock of the run, a submission for that of the registry, and the walk of
\* another run goes on
C38_Witness ==
    /\ reader.op = "get"
    /\ SubmitBlocked
    /\ WalkBlocked(reader.exec)
    /\ \E d \in Execs : d # reader.exec /\ Walking(d) /\ ENABLED WalkStep(d)

\* the templates that the steps and tasks of template `name` name
RefNames(wf, name) ==
    IF FindTemplate(wf, name) = 0 THEN {}
    ELSE LET t == wf.templates[FindTemplate(wf, name)]
         IN  IF TemplateKind(t) \in {"steps", "dag"} THEN RefsOf(t) ELSE {}

\* the templates reached from those of `names` in at most n more references
RECURSIVE Closure(_, _, _)
Closure(wf, names, n) ==
    IF n = 0 THEN names
    ELSE Closure(wf, names \cup UNION {RefNames(wf, x) : x \in names}, n - 1)

\* the walk from the entrypoint reaches a template that reaches itself
Recursive(wf) ==
    \E name \in Closure(wf, {wf.entrypoint}, Len(wf.templates)) :
        name \in Closure(wf, RefNames(wf, name), Len(wf.templates))

\* C39: the run of a document in which a step list or a task graph refers
\* to itself, directly or through other templates, is in the end over, in
\* phase Succeeded or Failed.
C39_RecursiveWalkTerminates ==
    \A k \in 1..MaxRuns :
        (k \in Execs /\ Recursive(execs[k])) ~>
            (k \in Execs /\ walk[k] = "done" /\ Terminal(k))

=============================================================================
